---- MODULE Spec2Model ----
(***************************************************************************)
(* Model of PythonBooksScraping.py: the book-metadata enrichment pipeline. *)
(*                                                                         *)
(* One behaviour is a succession of runs of BookEnricher.process_books     *)
(* over one input file and one output file (the ledger).  Every step is    *)
(* the code between two suspension points of the single asyncio task: an   *)
(* awaited network call, an awaited asyncio.sleep, or the blocking         *)
(* inquirer prompt.  The environment (the three remote sources, the        *)
(* operator, the file system) chooses the answer at each step.             *)
(*                                                                         *)
(* A book record keeps the fields that decide control flow and identity:   *)
(* the isbn it was stamped with, the source that produced it and the       *)
(* position of the item of the source's response it was built from (which  *)
(* stands for title, authors, year, ... all copied from that item).        *)
(* book_name of an input row only feeds the search URL and the messages.   *)
(***************************************************************************)
EXTENDS Integers, Sequences, FiniteSets, TLC

\* ------------------------------------------------------------------ bounds
NumIds == 2        \* distinct numeric isbn values an input or ledger may hold
MaxInput == 2      \* rows of the input file
MaxPrior == 1      \* rows of the output file before the first run
MaxRaw == 4        \* items in one scraped search response
MaxRuns == 2       \* successive runs of the tool over the same files

\* ------------------------------------------------------- program constants
MAX_RESULTS_PER_SOURCE == 3

\* ----------------------------------------------------------------- values
\* A cell of the isbn column: pandas yields an integer or a text.
IntCell(k) == [kind |-> "int", n |-> k, s |-> <<>>]
StrCell(d) == [kind |-> "str", n |-> 0, s |-> d]
NoCell == [kind |-> "none", n |-> 0, s |-> <<>>]

RECURSIVE Decimal(_)
\* str(n) of a non-negative integer, as its sequence of decimal digits.
Decimal(k) == IF k < 10 THEN <<k>> ELSE Append(Decimal(k \div 10), k % 10)

\* str(cell) / Series.astype(str): the text the dedup key is compared by.
AsStr(cell) == IF cell.kind = "int" THEN Decimal(cell.n) ELSE cell.s

\* The candidate takes its isbn from the item of the response it is built
\* from, not from the query.
BookDataOfItem(isbn, source, item) ==
    [isbn |-> StrCell(Decimal(item + 2)), source |-> source, item |-> item]

\* BookData(...): a candidate stamped with the query's isbn.
BookData(isbn, source, item) == [isbn |-> StrCell(isbn), source |-> source, item |-> item]

\* Python's None, where a BookData is expected.
None == [isbn |-> NoCell, source |-> "none", item |-> 0]

\* A row get_book_data has not (yet) been called for in this run.
Unprocessed == [isbn |-> NoCell, source |-> "unprocessed", item |-> 0]

\* asdict(book): the same fields, as a row of the results frame.
asdict(book) == [isbn |-> book.isbn, source |-> book.source, item |-> book.item]

\* self.sources, in the order of the constructor.
Sources == <<"goodreads", "worldcat">>

\* pd.DataFrame(): no columns, no rows.
EmptyFrame == [columns |-> {}, rows |-> <<>>]

Range(f) == {f[k] : k \in DOMAIN f}

RECURSIVE SeqsUpTo(_, _)
SeqsUpTo(S, n) ==
    IF n = 0 THEN {<<>>}
    ELSE LET shorter == SeqsUpTo(S, n - 1)
         IN  shorter \cup {Append(q, x) : q \in {r \in shorter : Len(r) = n - 1}, x \in S}

Min(a, b) == IF a < b THEN a ELSE b

Indices(n) == [k \in 1..n |-> k]

\* ------------------------------------------------------------- environment
\* The values an isbn cell can take: numbers, and one text spelling of 1.
Cells == {IntCell(k) : k \in 1..NumIds} \cup {StrCell(Decimal(1))}

\* A row an earlier run persisted, as read back from the output file.
PriorRecord(k) == [isbn |-> IntCell(k), source |-> "google", item |-> 1]

\* Output files before the first run: absent, or rows with unique identifiers.
InitLedgers ==
    {[exists |-> FALSE, rows |-> <<>>]} \cup
    {[exists |-> TRUE, rows |-> [k \in DOMAIN q |-> PriorRecord(q[k])]] :
        q \in {r \in SeqsUpTo(1..NumIds, MaxPrior) :
                  \A a, b \in DOMAIN r : a # b => r[a] # r[b]}}

\* Responses of the Google Books endpoint: the request raises, or answers
\* with a status and a totalItems count.
GoogleResponses ==
    {[fault |-> TRUE, ok |-> FALSE, totalItems |-> 0],
     [fault |-> FALSE, ok |-> FALSE, totalItems |-> 0]} \cup
    [fault : {FALSE}, ok : {TRUE}, totalItems : 0..1]

\* One scraped result row: which of the selected elements it has.
Items == {[title |-> TRUE, author |-> TRUE],
          [title |-> TRUE, author |-> FALSE],
          [title |-> FALSE, author |-> FALSE]}

\* Responses of a scraped search page: the request or the extraction raises,
\* or the page answers with a status and a list of result rows.
SearchResponses ==
    {[fault |-> TRUE, ok |-> FALSE, items |-> <<>>],
     [fault |-> FALSE, ok |-> FALSE, items |-> <<>>]} \cup
    [fault : {FALSE}, ok : {TRUE}, items : SeqsUpTo(Items, MaxRaw)]

\* ------------------------------------------------------------ the adapters
\* BookEnricher.fetch_google_books
fetch_google_books(isbn, r) ==
    IF r.fault THEN None
    ELSE IF ~r.ok THEN None
    ELSE IF r.totalItems = 0 THEN None
    ELSE BookData(isbn, "google", 1)

\* The elements a result row must have for the adapter to keep it.
Usable(source, item) ==
    IF source = "goodreads" THEN item.title /\ item.author ELSE item.title

\* Every result row of the page is looked at.
Unsliced(items) == items

\* soup.select(...)[:MAX_RESULTS_PER_SOURCE]
Sliced(items) == SubSeq(items, 1, Min(Len(items), MAX_RESULTS_PER_SOURCE))

\* GoodreadsSource.search / WorldCatSource.search
search(source, isbn, r) ==
    IF r.fault THEN <<>>
    ELSE IF ~r.ok THEN <<>>
    ELSE LET head == Sliced(r.items)
             kept == SelectSeq(Indices(Len(head)), LAMBDA k : Usable(source, head[k]))
         IN  [j \in DOMAIN kept |-> BookData(isbn, source, kept[j])]

\* Whatever get_book_data returned counts as a book, None included.
AlwaysTruthy(book) == TRUE

\* A BookData that counts as false, as an empty container would.
NeverTruthy(book) == FALSE

\* `if book:` on an Optional[BookData]
Truthy(book) == book # None

\* ------------------------------------------------------------------- state
VARIABLES
    input,          \* the input file: its isbn column, row by row
    ledger,         \* the output file: [exists, rows]
    run,            \* number of the current run
    pc,             \* where the run's task is suspended
    exit,           \* how the current run ended ("" while it runs)
    wrote,          \* FileHandler.write_file in this run: none / ok / failed
    df_out,         \* process_books: the frame read from the output file
    new_books,      \* process_books: indices of the input rows to process
    i,              \* process_books: position of the loop in new_books
    results,        \* process_books: accumulated asdict(book)
    src,            \* get_book_data: position of the loop in self.sources
    all_results,    \* get_book_data: aggregated candidates
    calls,          \* the query in hand: its adapter calls, delays, prompt
    primary,        \* the query in hand: what fetch_google_books returned
    found,          \* the query in hand: what each fallback search returned
    chosen,         \* the query in hand: the position the operator picked
    outcome,        \* per input row: what get_book_data returned in this run
    failed,         \* the adapter call answered by the last step failed
    raw,            \* result rows of the page the last step scraped (0: none)
    broken,         \* the file whose read raises in this run ("": neither)
    message,        \* the last line the run printed about its end ("": none)
    cancelled,      \* this run: the await the operator interrupted ("": none)
                    \* and the rows whose prompt the operator interrupted
    ledgerAtStart,  \* the output file when the current run started
    past            \* one summary per finished run

files == <<input, ledger>>
locals == <<df_out, new_books, i, results, src, all_results>>
history == <<calls, primary, found, chosen, outcome, cancelled>>
vars == <<input, ledger, run, pc, exit, wrote, df_out, new_books, i, results,
          src, all_results, calls, primary, found, chosen, outcome, failed,
          raw, broken, message, cancelled, ledgerAtStart, past>>

Rows == 1..Len(input)

\* The row of the input the loop of process_books is at.
Row == new_books[i]

\* str(row['isbn'])
Isbn == AsStr(input[Row])

\* The identifiers of the rows of a frame: frame['isbn'].astype(str)
Identifiers(rows) == {AsStr(r.isbn) : r \in Range(rows)}

\* Every input row is pending, whatever the output file holds.
NewBooksUnfiltered(df_in, out) == Indices(Len(df_in))

\* The isbn cells are compared as they are, without astype(str).
NewBooksRawCells(df_in, out) ==
    SelectSeq(Indices(Len(df_in)),
              LAMBDA k : df_in[k] \notin {r.isbn : r \in Range(out.rows)})

\* df_in[~df_in['isbn'].astype(str).isin(df_out['isbn'].astype(str))]
NewBooks(df_in, out) ==
    SelectSeq(Indices(Len(df_in)),
              LAMBDA k : AsStr(df_in[k]) \notin Identifiers(out.rows))

\* FileHandler.read_file(out_path) if out_path.exists() else pd.DataFrame()
ReadOutput(file) ==
    IF file.exists THEN [columns |-> {"book_name", "isbn"}, rows |-> file.rows]
    ELSE EmptyFrame

\* The new records are put in front of the rows read from the output file.
concatNewFirst(frame, rs) == rs \o frame.rows

\* pd.concat([df_out, pd.DataFrame(results)])
concat(frame, rs) == frame.rows \o rs

\* The Skip choice is listed first, ahead of the candidates.
ChoicesSkipFirst(candidates) == <<None>> \o candidates

\* The values of the choices of the prompt, lines 331-338.
Choices(candidates) == Append(candidates, None)

Logged(events) == calls \o events

Fresh(value) == [k \in Rows |-> value]

\* The reads of process_books that can raise: read_file of the input (line
\* 352: unreadable, or book_name or isbn missing), and of the output file when
\* it exists (lines 353-355).
Breakable(file) == {"", "input"} \cup (IF file.exists THEN {"output"} ELSE {})

Init ==
    /\ input \in SeqsUpTo(Cells, MaxInput)
    /\ ledger \in InitLedgers
    /\ run = 1
    /\ pc = "start"
    /\ exit = ""
    /\ wrote = "none"
    /\ df_out = EmptyFrame
    /\ new_books = <<>>
    /\ i = 0
    /\ results = <<>>
    /\ src = 0
    /\ all_results = <<>>
    /\ calls = <<>>
    /\ primary = Unprocessed
    /\ found = <<>>
    /\ chosen = 0
    /\ outcome = Fresh(Unprocessed)
    /\ failed = FALSE
    /\ raw = 0
    /\ broken \in Breakable(ledger)
    /\ message = ""
    /\ cancelled = [at |-> "", prompts |-> {}]
    /\ ledgerAtStart = ledger
    /\ past = <<>>

\* --------------------------------------------------------------- the steps
\* The run is over: control leaves process_books (and main).
Ended(how, line) ==
    /\ pc' = "done"
    /\ exit' = how
    /\ message' = line

\* read_file returns whatever frame it read, without validating it.
ReadsUnvalidated == TRUE

\* process_books, lines 352-355: both calls of read_file return a frame.
ReadsBothFiles == broken = ""

\* process_books, lines 351-358: reading the input or the output file raises
\* (unreadable file, missing book_name or isbn column); the run returns.
ReadFails ==
    /\ failed' = FALSE
    /\ raw' = 0
    /\ pc = "start"
    /\ ~ReadsBothFiles
    /\ Ended("read_error", "Error reading files")
    /\ UNCHANGED <<files, run, broken, wrote, locals, history, ledgerAtStart, past>>

\* process_books, lines 351-369: both files are read, the pending rows are
\* selected and the first call of get_book_data issues the Google request.
\* Selecting a column the frame does not have raises KeyError, which nothing
\* in process_books catches.
ProcessBooks ==
    /\ failed' = FALSE
    /\ raw' = 0
    /\ pc = "start"
    /\ ReadsBothFiles
    /\ LET out == ReadOutput(ledger)
           pending == NewBooks(input, out)
       IN  /\ df_out' = out
           /\ IF "isbn" \notin out.columns
              THEN /\ Ended("KeyError", "Error during enrichment")
                   /\ UNCHANGED <<new_books, i, calls>>
              ELSE /\ new_books' = pending
                   /\ IF pending = <<>>
                      THEN /\ Ended("no_new", "No new books to process")
                           /\ UNCHANGED <<i, calls>>
                      ELSE /\ pc' = "google"
                           /\ i' = 1
                           /\ calls' = <<"google">>
                           /\ UNCHANGED <<exit, message>>
    /\ results' = <<>>
    /\ UNCHANGED <<files, run, broken, wrote, src, all_results, primary, found, chosen,
                   outcome, cancelled, ledgerAtStart, past>>

\* get_book_data returns `book` to process_books, lines 369-372: a book is
\* appended to results, then the loop sleeps.
Returns(book, events) ==
    /\ results' = IF Truthy(book) THEN Append(results, asdict(book)) ELSE results
    /\ outcome' = [outcome EXCEPT ![Row] = book]
    /\ calls' = Logged(events \o <<"delay">>)
    /\ found' = <<>>
    /\ pc' = "sleep_row"
    /\ src' = 0
    /\ all_results' = <<>>

\* A response that is a failure of the call rather than an answer.
Failure(r) == r.fault \/ ~r.ok

\* What the log keeps of an answered call: whether it yielded nothing.
Outcome(got) == IF got = <<>> THEN <<"nothing">> ELSE <<>>

\* get_book_data, lines 314-323: the Google request is answered; a hit is
\* returned at once, otherwise the first fallback source is searched.
GoogleAnswers ==
    /\ pc = "google"
    /\ \E r \in GoogleResponses :
          LET book == fetch_google_books(Isbn, r)
          IN  /\ primary' = book
              /\ failed' = Failure(r)
              /\ raw' = 0
              /\ IF Truthy(book)
                 THEN Returns(book, <<>>)
                 ELSE /\ pc' = "search"
                      /\ src' = 1
                      /\ all_results' = <<>>
                      /\ calls' = Logged(Outcome(<<>>) \o <<Sources[1]>>)
                      /\ UNCHANGED <<results, outcome, found>>
    /\ UNCHANGED <<files, run, broken, exit, message, wrote, df_out, new_books,
                   i, chosen, cancelled, ledgerAtStart, past>>

\* A failure of the search is not caught in the adapter: it ends the run.
SearchAnswersPropagates ==
    /\ pc = "search"
    /\ \E r \in SearchResponses :
          LET got == search(Sources[src], Isbn, r)
          IN  /\ all_results' = all_results \o got
              /\ found' = Append(found, got)
              /\ failed' = Failure(r)
              /\ raw' = Len(r.items)
              /\ calls' = Logged(Outcome(got) \o <<"delay">>)
              /\ IF Failure(r)
                 THEN Ended("error", "Error during enrichment")
                 ELSE pc' = "sleep_src" /\ UNCHANGED <<exit, message>>
    /\ UNCHANGED <<files, run, broken, wrote, df_out, new_books, i, results, src,
                   primary, chosen, outcome, cancelled, ledgerAtStart, past>>

\* The candidates of a source are put in front of those found before.
SearchAnswersPrepends ==
    /\ pc = "search"
    /\ \E r \in SearchResponses :
          LET got == search(Sources[src], Isbn, r)
          IN  /\ all_results' = got \o all_results
              /\ found' = Append(found, got)
              /\ failed' = Failure(r)
              /\ raw' = Len(r.items)
              /\ calls' = Logged(Outcome(got) \o <<"delay">>)
    /\ pc' = "sleep_src"
    /\ UNCHANGED <<files, run, broken, exit, message, wrote, df_out, new_books,
                   i, results, src, primary, chosen, outcome, cancelled,
                   ledgerAtStart, past>>

\* The loop over the sources does not sleep between two searches.
SearchAnswersWithoutDelay ==
    /\ pc = "search"
    /\ \E r \in SearchResponses :
          LET got == search(Sources[src], Isbn, r)
          IN  /\ all_results' = all_results \o got
              /\ found' = Append(found, got)
              /\ failed' = Failure(r)
              /\ raw' = Len(r.items)
              /\ IF src < Len(Sources)
                 THEN /\ calls' = Logged(Outcome(got) \o <<Sources[src + 1]>>)
                      /\ src' = src + 1
                      /\ pc' = "search"
                 ELSE /\ calls' = Logged(Outcome(got) \o <<"delay">>)
                      /\ src' = src
                      /\ pc' = "sleep_src"
    /\ UNCHANGED <<files, run, broken, exit, message, wrote, df_out, new_books,
                   i, results, primary, chosen, outcome, cancelled,
                   ledgerAtStart, past>>

\* get_book_data, lines 323-325: a fallback search is answered, its
\* candidates are appended and the rate-limit sleep starts.
SearchAnswers ==
    /\ pc = "search"
    /\ \E r \in SearchResponses :
          LET got == search(Sources[src], Isbn, r)
          IN  /\ all_results' = all_results \o got
              /\ found' = Append(found, got)
              /\ failed' = Failure(r)
              /\ raw' = Len(r.items)
              /\ calls' = Logged(Outcome(got) \o <<"delay">>)
    /\ pc' = "sleep_src"
    /\ UNCHANGED <<files, run, broken, exit, message, wrote, df_out, new_books, i, results, src,
                   primary, chosen, outcome, cancelled, ledgerAtStart, past>>

\* After the last source the operator is prompted even when nothing was found.
SourceSleepOverAlwaysPrompts ==
    /\ failed' = FALSE
    /\ raw' = 0
    /\ pc = "sleep_src"
    /\ IF src < Len(Sources)
       THEN /\ src' = src + 1
            /\ pc' = "search"
            /\ calls' = Logged(<<Sources[src + 1]>>)
            /\ UNCHANGED <<results, outcome, all_results, found>>
       ELSE /\ pc' = "prompt"
            /\ calls' = Logged(<<"prompt">>)
            /\ UNCHANGED <<results, outcome, all_results, src, found>>
    /\ UNCHANGED <<files, run, broken, exit, message, wrote, df_out, new_books, i, primary,
                   chosen, cancelled, ledgerAtStart, past>>

\* get_book_data, lines 322-346: the sleep after a source is over; the next
\* source is searched, or, after the last one, nothing was found (None is
\* returned) or the operator is prompted.
SourceSleepOver ==
    /\ failed' = FALSE
    /\ raw' = 0
    /\ pc = "sleep_src"
    /\ IF src < Len(Sources)
       THEN /\ src' = src + 1
            /\ pc' = "search"
            /\ calls' = Logged(<<Sources[src + 1]>>)
            /\ UNCHANGED <<results, outcome, all_results, found>>
       ELSE IF all_results = <<>>
            THEN Returns(None, <<>>)
            ELSE /\ pc' = "prompt"
                 /\ calls' = Logged(<<"prompt">>)
                 /\ UNCHANGED <<results, outcome, all_results, src, found>>
    /\ UNCHANGED <<files, run, broken, exit, message, wrote, df_out, new_books, i, primary,
                   chosen, cancelled, ledgerAtStart, past>>

\* get_book_data, lines 346-347: the operator picks the k-th choice.
PromptAnswers ==
    /\ failed' = FALSE
    /\ raw' = 0
    /\ pc = "prompt"
    /\ \E k \in 1..Len(Choices(all_results)) :
          /\ chosen' = k
          /\ Returns(Choices(all_results)[k], <<>>)
    /\ UNCHANGED <<files, run, broken, exit, message, wrote, df_out, new_books, i, primary,
                   cancelled, ledgerAtStart, past>>

\* get_book_data, lines 346-347: the operator interrupts the prompt;
\* inquirer.prompt swallows the interrupt and returns no answers.
PromptCancelled ==
    /\ failed' = FALSE
    /\ raw' = 0
    /\ pc = "prompt"
    /\ Returns(None, <<"prompt_cancel">>)
    /\ cancelled' = [cancelled EXCEPT !.prompts = @ \cup {Row}]
    /\ UNCHANGED <<files, run, broken, exit, message, wrote, df_out, new_books, i, primary,
                   chosen, ledgerAtStart, past>>

\* The loop does not advance: the row just processed is taken again.
NextRowRevisits ==
    /\ failed' = FALSE
    /\ raw' = 0
    /\ pc = "sleep_row"
    /\ i < Len(new_books)
    /\ i' = i
    /\ pc' = "google"
    /\ calls' = <<"google">>
    /\ primary' = Unprocessed
    /\ chosen' = 0
    /\ UNCHANGED <<files, run, broken, exit, message, wrote, df_out, new_books,
                   results, src, all_results, found, outcome, cancelled,
                   ledgerAtStart, past>>

\* process_books, lines 367-372: the sleep after a row is over and there is
\* another row; get_book_data issues the Google request for it.
NextRow ==
    /\ failed' = FALSE
    /\ raw' = 0
    /\ pc = "sleep_row"
    /\ i < Len(new_books)
    /\ i' = i + 1
    /\ pc' = "google"
    /\ calls' = <<"google">>
    /\ primary' = Unprocessed
    /\ chosen' = 0
    /\ UNCHANGED <<files, run, broken, exit, message, wrote, df_out, new_books, results, src,
                   all_results, found, outcome, cancelled, ledgerAtStart, past>>

\* With nothing resolved the loop over the pending rows starts over.
FinishEmptyStartsOver ==
    /\ failed' = FALSE
    /\ raw' = 0
    /\ pc = "sleep_row"
    /\ i = Len(new_books)
    /\ results = <<>>
    /\ i' = 1
    /\ pc' = "google"
    /\ calls' = <<"google">>
    /\ primary' = Unprocessed
    /\ chosen' = 0
    /\ outcome' = Fresh(Unprocessed)
    /\ cancelled' = [at |-> "", prompts |-> {}]
    /\ UNCHANGED <<files, run, broken, exit, message, wrote, df_out, new_books,
                   results, src, all_results, found, ledgerAtStart, past>>

\* process_books, lines 374-382: the sleep after the last row is over; no
\* results, no write.
FinishEmpty ==
    /\ failed' = FALSE
    /\ raw' = 0
    /\ pc = "sleep_row"
    /\ i = Len(new_books)
    /\ results = <<>>
    /\ Ended("ok", "")
    /\ UNCHANGED <<files, run, broken, wrote, locals, history, ledgerAtStart, past>>

\* process_books, lines 374-380: the merged frame is written.
FinishWrite ==
    /\ failed' = FALSE
    /\ raw' = 0
    /\ pc = "sleep_row"
    /\ i = Len(new_books)
    /\ results # <<>>
    /\ ledger' = [exists |-> TRUE, rows |-> concat(df_out, results)]
    /\ wrote' = "ok"
    /\ Ended("ok", "Added")
    /\ UNCHANGED <<input, run, broken, locals, history, ledgerAtStart, past>>

\* write_file raises, yet the run reports the books as added.
FinishWriteFailsUnreported ==
    /\ failed' = FALSE
    /\ raw' = 0
    /\ pc = "sleep_row"
    /\ i = Len(new_books)
    /\ results # <<>>
    /\ wrote' = "failed"
    /\ Ended("ok", "Added")
    /\ UNCHANGED <<files, run, broken, locals, history, ledgerAtStart, past>>

\* process_books, lines 374-382: write_file raises; the error is printed.
FinishWriteFails ==
    /\ failed' = FALSE
    /\ raw' = 0
    /\ pc = "sleep_row"
    /\ i = Len(new_books)
    /\ results # <<>>
    /\ wrote' = "failed"
    /\ Ended("ok", "Error writing output file")
    /\ UNCHANGED <<files, run, broken, locals, history, ledgerAtStart, past>>

\* The awaits of the task: a network request or an asyncio.sleep.
Awaiting == pc \in {"google", "search", "sleep_src", "sleep_row"}

\* The interrupt is swallowed where it is raised (a broad except clause) and
\* the task carries on.
InterruptSwallowed ==
    /\ Awaiting
    /\ cancelled.at = ""
    /\ failed' = FALSE
    /\ raw' = 0
    /\ calls' = Logged(<<"interrupt">>)
    /\ cancelled' = [cancelled EXCEPT !.at = pc]
    /\ UNCHANGED <<files, run, broken, pc, exit, message, wrote, locals, primary, found, chosen,
                   outcome, ledgerAtStart, past>>

\* The interrupt ends the run, but what was accumulated so far is saved.
InterruptFlushes ==
    /\ Awaiting
    /\ failed' = FALSE
    /\ raw' = 0
    /\ calls' = Logged(<<"interrupt">>)
    /\ cancelled' = [cancelled EXCEPT !.at = pc]
    /\ Ended("interrupted", "Process interrupted by user")
    /\ ledger' = IF results = <<>> THEN ledger
                 ELSE [exists |-> TRUE, rows |-> concat(df_out, results)]
    /\ UNCHANGED <<input, run, broken, wrote, locals, primary, found, chosen, outcome,
                   ledgerAtStart, past>>

\* __main__, lines 434-437: the operator interrupts while the task awaits;
\* the task is cancelled at that await and the process ends.
Interrupt ==
    /\ failed' = FALSE
    /\ raw' = 0
    /\ Awaiting
    /\ calls' = Logged(<<"interrupt">>)
    /\ cancelled' = [cancelled EXCEPT !.at = pc]
    /\ Ended("interrupted", "Process interrupted by user")
    /\ UNCHANGED <<files, run, broken, wrote, locals, primary, found, chosen, outcome,
                   ledgerAtStart, past>>

\* What a finished run leaves behind.
Summary ==
    [exit |-> exit, wrote |-> wrote, ledger |-> ledger,
     skipped |-> {k \in Rows : outcome[k] = None},
     resolved |-> {k \in Rows : outcome[k] \notin {None, Unprocessed}}]

\* The tool is started again over the same files.
RunAgain ==
    /\ failed' = FALSE
    /\ raw' = 0
    /\ pc = "done"
    /\ run < MaxRuns
    /\ run' = run + 1
    /\ past' = Append(past, Summary)
    /\ pc' = "start"
    /\ exit' = ""
    /\ message' = ""
    /\ broken' \in Breakable(ledger)
    /\ wrote' = "none"
    /\ df_out' = EmptyFrame
    /\ new_books' = <<>>
    /\ i' = 0
    /\ results' = <<>>
    /\ src' = 0
    /\ all_results' = <<>>
    /\ calls' = <<>>
    /\ primary' = Unprocessed
    /\ found' = <<>>
    /\ chosen' = 0
    /\ outcome' = Fresh(Unprocessed)
    /\ cancelled' = [at |-> "", prompts |-> {}]
    /\ ledgerAtStart' = ledger
    /\ UNCHANGED files

Next ==
    \/ ReadFails
    \/ ProcessBooks
    \/ GoogleAnswers
    \/ SearchAnswers
    \/ SourceSleepOver
    \/ PromptAnswers
    \/ PromptCancelled
    \/ NextRow
    \/ FinishEmpty
    \/ FinishWrite
    \/ FinishWriteFails
    \/ Interrupt
    \/ RunAgain

Spec == Init /\ [][Next]_vars

\* The steps of one run that the operator does not interrupt at an await:
\* the synchronous code between two suspension points, entered when the
\* awaited request is answered, the sleep is over or the prompt returns.
Proceeds ==
    \/ ReadFails
    \/ ProcessBooks
    \/ GoogleAnswers
    \/ SearchAnswers
    \/ SourceSleepOver
    \/ PromptAnswers
    \/ PromptCancelled
    \/ NextRow
    \/ FinishEmpty
    \/ FinishWrite
    \/ FinishWriteFails

\* One run of the tool, never cancelled at an await, in which every request,
\* sleep and prompt the task waits for comes to an end.
LiveSpec == Init /\ [][Proceeds]_vars /\ WF_vars(Proceeds)

\* ------------------------------------------------------------ the claims
\* Rows whose identifiers are pairwise different as texts.
Unique(rows) ==
    \A a, b \in DOMAIN rows : a # b => AsStr(rows[a].isbn) # AsStr(rows[b].isbn)

\* The rows the output file holds beyond those it held when the run started.
Added == SubSeq(ledger.rows, Len(ledgerAtStart.rows) + 1, Len(ledger.rows))

\* The run returned from process_books by itself: neither a failed read nor
\* an interrupt ended it.
RanToEnd == pc = "done" /\ exit \notin {"read_error", "interrupted"}

\* C1: when the output file is absent the prior ledger counts as empty: every
\* input row is driven through get_book_data, the run completes without error,
\* and every row Google resolves is a record of the written ledger.
C1_AbsentOutputIsEmptyLedger ==
    (~ledgerAtStart.exists /\ input # <<>> /\ RanToEnd) =>
        /\ exit \in {"ok", "no_new"}
        /\ \A k \in Rows : outcome[k] # Unprocessed
        /\ wrote # "failed" =>
              \A k \in Rows : outcome[k].source = "google" =>
                  asdict(outcome[k]) \in Range(ledger.rows)

\* C2: when fetch_google_books returns a candidate for the query in hand,
\* get_book_data returns exactly that candidate, and no fallback source was
\* searched and no prompt shown for that query.
C2_PrimaryShortCircuit ==
    primary.source = "google" =>
        /\ primary = BookData(Isbn, "google", 1)
        /\ outcome[Row] = primary
        /\ Range(calls) \cap (Range(Sources) \cup {"prompt"}) = {}
        /\ found = <<>>
        /\ chosen = 0

\* C2, witness: a query Google answered with a hit has just returned.
C2_Witness ==
    /\ pc = "sleep_row"
    /\ primary.source = "google"
    /\ outcome[Row] = primary
    /\ calls = <<"google", "delay">>

\* C3: a run that starts from a ledger with unique identifiers leaves a ledger
\* with unique identifiers, whatever the input (repeated identifiers included).
C3_LedgerIdentifiersUnique ==
    Unique(ledgerAtStart.rows) => Unique(ledger.rows)

\* The events of a query's log that are calls of an adapter or the prompt.
Invocations == Range(Sources) \cup {"google", "prompt"}

\* The log of the query in hand holds an interrupt, and nothing was invoked
\* after it.
StoppedAtCancel ==
    \E p \in DOMAIN calls :
        /\ calls[p] \in {"interrupt", "prompt_cancel"}
        /\ \A q \in DOMAIN calls : q > p => calls[q] \notin Invocations

\* The operator interrupted this run somewhere.
Cancelled == cancelled.at # "" \/ cancelled.prompts # {}

\* The records of this run's queries, in the order of the input.
Resolved ==
    LET hits == SelectSeq(new_books, LAMBDA k : outcome[k] \notin {None, Unprocessed})
    IN  [j \in DOMAIN hits |-> asdict(outcome[hits[j]])]

Previous == past[Len(past)]

\* A run that returned from process_books by itself and whose write, if any,
\* succeeded.
Clean(r) == r.exit \in {"ok", "no_new", "KeyError"} /\ r.wrote # "failed"

\* Every query the previous run skipped and this run asked again was answered
\* the same way: it was skipped again.
SameAnswers == \A k \in Previous.skipped : outcome[k] \in {None, Unprocessed}

\* C6: a second run over the same input, started from the ledger the first
\* run left and answered the same way, leaves the ledger the first run left.
C6_RerunLeavesSameLedger ==
    ( /\ past # <<>>
      /\ pc = "done"
      /\ Clean(Previous)
      /\ Clean([exit |-> exit, wrote |-> wrote])
      /\ SameAnswers ) => ledger = Previous.ledger

\* C6, witness: the first run wrote a record and skipped a query; the second
\* run asked the skipped query again, skipped it again and is over.
C6_Witness ==
    /\ past # <<>>
    /\ pc = "done" /\ exit = "ok"
    /\ Previous.exit = "ok" /\ Previous.wrote = "ok"
    /\ \E k \in Previous.skipped : outcome[k] = None
    /\ ledger = Previous.ledger

\* The identifier of input row k is one the ledger held when the run started.
InLedger(k) == AsStr(input[k]) \in Identifiers(ledgerAtStart.rows)

\* C7: an input row whose identifier the prior ledger holds is never driven
\* through get_book_data (it is not pending, nothing is returned for it, no row
\* with its identifier is added); when that is so for every input row the run
\* is a no-op: no adapter call, no prompt, no write, the ledger unchanged.
C7_KnownIdentifierNotProcessed ==
    /\ \A k \in Rows : InLedger(k) =>
          /\ k \notin Range(new_books)
          /\ outcome[k] = Unprocessed
          /\ \A r \in Range(Added) : AsStr(r.isbn) # AsStr(input[k])
    /\ (\A k \in Rows : InLedger(k)) =>
          /\ calls = <<>>
          /\ new_books = <<>>
          /\ wrote = "none"
          /\ ledger = ledgerAtStart
          /\ exit \notin {"ok", "interrupted"}

\* C7, witness: the ledger held the identifier of one input row, spelt as a
\* number there and as a text in the input; the other row was processed and
\* its record written.
C7_Witness ==
    /\ pc = "done" /\ wrote = "ok"
    /\ \E k \in Rows : InLedger(k) /\ input[k].kind = "str"
    /\ \E k \in Rows : ~InLedger(k)

\* The log of the query in hand shows that this call yielded nothing.
NothingFrom(name) ==
    \E p \in DOMAIN calls : calls[p] = name /\ p < Len(calls) /\ calls[p + 1] = "nothing"

\* Google and every fallback source yielded nothing for the query in hand.
AllMissed == NothingFrom("google") /\ \A name \in Range(Sources) : NothingFrom(name)

\* C8: when Google misses and every fallback source returns no candidates,
\* get_book_data returns None without prompting and adds no record; a run all
\* of whose pending queries return None ends without error, writes nothing
\* and leaves the ledger as it was.
C8_AllMissedIsSkip ==
    /\ AllMissed =>
          /\ "prompt" \notin Range(calls)
          /\ chosen = 0
          /\ outcome[Row] = None \/ pc = "sleep_src" \/ exit = "interrupted"
          /\ outcome[Row] \in {None, Unprocessed}
          /\ results = Resolved
    /\ (pc = "done" /\ new_books # <<>> /\ \A k \in Range(new_books) : outcome[k] = None) =>
          /\ exit \in {"ok", "interrupted"}
          /\ wrote = "none"
          /\ ledger = ledgerAtStart

\* C8, witness: a run of two pending queries is over; the last one missed
\* everywhere, both returned None, nothing was written.
C8_Witness ==
    /\ pc = "done" /\ exit = "ok"
    /\ Len(new_books) = 2
    /\ AllMissed
    /\ \A k \in Range(new_books) : outcome[k] = None
    /\ ledger = ledgerAtStart

RECURSIVE Flatten(_)
\* The concatenation of a sequence of sequences.
Flatten(ss) == IF ss = <<>> THEN <<>> ELSE Head(ss) \o Flatten(Tail(ss))

\* How often an event occurs in the log of the query in hand.
Count(name) == Cardinality({p \in DOMAIN calls : calls[p] = name})

\* C9: a failed adapter call (transport error, non-success status, response
\* that cannot be parsed) does not end the run and yields no candidates, as a
\* miss does: after a failed Google call the first fallback source is being
\* searched, after a failed search the candidates are those found before and
\* the loop over the sources goes on; no adapter is called twice for a query,
\* a query that went to the fallback sources has searched them all, and a run
\* that ends by itself has processed every pending query.
C9_FailureIsAMiss ==
    /\ failed =>
          /\ exit = ""
          /\ pc \in {"search", "sleep_src"}
          /\ pc = "search" =>
                /\ primary = None
                /\ src = 1 /\ all_results = <<>>
                /\ calls = <<"google", "nothing", Sources[1]>>
          /\ pc = "sleep_src" =>
                /\ Len(found) = src
                /\ found[src] = <<>>
                /\ all_results = Flatten(SubSeq(found, 1, src - 1))
    /\ \A name \in Invocations : Count(name) <= 1
    /\ (pc \in {"prompt", "sleep_row"} /\ primary = None) =>
          \A name \in Range(Sources) : Count(name) = 1
    /\ (pc = "done" /\ exit = "ok") =>
          \A k \in Range(new_books) : outcome[k] # Unprocessed

\* C9, witness: the last fallback search failed after an earlier source had
\* found candidates; they are kept and the run goes on.
C9_Witness ==
    /\ failed
    /\ pc = "sleep_src"
    /\ src = Len(Sources)
    /\ all_results # <<>>
    /\ i = 2

\* The step in which the prompt returns.
PromptReturns ==
    /\ pc' = "sleep_row"
    /\ all_results = Flatten(found)
    /\ outcome'[Row] \in Range(all_results) \cup {None}
    /\ chosen' \in 1..Len(all_results) => outcome'[Row] = all_results[chosen']
    /\ chosen' \notin 1..Len(all_results) => outcome'[Row] = None
    /\ results' = IF outcome'[Row] = None THEN results
                  ELSE Append(results, asdict(all_results[chosen']))

\* The log of a query for which Goodreads found candidates, WorldCat found
\* none and the operator answered the prompt.
FallbackLog ==
    <<"google", "nothing", "goodreads", "delay", "worldcat", "nothing", "delay",
      "prompt", "delay">>

\* One input row, an empty ledger, Goodreads found candidates, WorldCat none,
\* the operator picked the first choice and the run wrote its result.
FirstOfGoodreadsWritten ==
    /\ pc = "done" /\ wrote = "ok"
    /\ Len(input) = 1 /\ ledgerAtStart.rows = <<>>
    /\ calls = FallbackLog
    /\ chosen = 1

\* C10: on the fallback path get_book_data returns None or exactly one of the
\* aggregated candidates, unchanged, the one at the position the operator
\* picked; a source that found nothing does not stand in the way (Goodreads
\* finds candidates, WorldCat none, choice 1: the ledger is that one record).
C10_SelectionIsPositional ==
    /\ [][pc = "prompt" => PromptReturns]_vars
    /\ [](FirstOfGoodreadsWritten =>
            /\ outcome[1].source = "goodreads"
            /\ AsStr(outcome[1].isbn) = AsStr(input[1])
            /\ ledger.rows = <<asdict(outcome[1])>>)

\* C10, witness: the scenario of C10 has happened, with the second item of
\* the Goodreads page as first candidate.
C10_Witness ==
    /\ FirstOfGoodreadsWritten
    /\ ledger.rows = <<asdict(BookData(AsStr(input[1]), "goodreads", 2))>>

\* The fallback searches of the query in hand, in the order they were issued.
FallbackCalls == SelectSeq(calls, LAMBDA e : e \in Range(Sources))

\* The candidates of a list keep the order of the page they were scraped from.
InPageOrder(list) ==
    \A a, b \in DOMAIN list : a < b => list[a].item < list[b].item

\* C11: on a Google miss the fallback sources are searched once each, in the
\* order Goodreads, WorldCat, a search being issued only when every earlier
\* one has returned; the candidates the prompt is built from are those of
\* Goodreads, in page order, followed by those of WorldCat, in page order.
C11_FallbacksInPriorityOrder ==
    /\ \E n \in 0..Len(Sources) : FallbackCalls = SubSeq(Sources, 1, n)
    /\ FallbackCalls # <<>> => primary = None /\ calls[1] = "google"
    /\ pc = "search" =>
          /\ FallbackCalls = SubSeq(Sources, 1, src)
          /\ Len(found) = src - 1
    /\ pc = "sleep_src" =>
          /\ FallbackCalls = SubSeq(Sources, 1, src)
          /\ Len(found) = src
    /\ (primary = None /\ pc \in {"prompt", "sleep_row"}) =>
          FallbackCalls = <<"goodreads", "worldcat">>
    /\ pc = "prompt" =>
          /\ Len(found) = 2
          /\ \A c \in Range(found[1]) : c.source = "goodreads"
          /\ \A c \in Range(found[2]) : c.source = "worldcat"
          /\ InPageOrder(found[1]) /\ InPageOrder(found[2])
          /\ all_results = found[1] \o found[2]
          /\ \A a, b \in DOMAIN all_results :
                (a < b /\ all_results[a].source = "worldcat") =>
                    all_results[b].source = "worldcat"

\* C11, witness: the prompt is about to be shown with two candidates of
\* Goodreads and at least one of WorldCat.
C11_Witness ==
    /\ pc = "prompt"
    /\ Len(found[1]) = 2
    /\ found[2] # <<>>
    /\ Len(all_results) = 2 + Len(found[2])

\* C12: a fallback search returns at most MAX_RESULTS_PER_SOURCE = 3
\* candidates, taken from the first 3 result rows of the page however many
\* rows the page has, so the candidates of one query are never more than 3
\* times the number of fallback sources (and the prompt lists one more
\* choice, Skip).
C12_AtMostKPerSource ==
    /\ MAX_RESULTS_PER_SOURCE = 3
    /\ \A j \in DOMAIN found :
          /\ Len(found[j]) <= MAX_RESULTS_PER_SOURCE
          /\ \A c \in Range(found[j]) : c.item \in 1..MAX_RESULTS_PER_SOURCE
    /\ (pc = "sleep_src" /\ raw > 0) =>
          Len(found[src]) <= Min(raw, MAX_RESULTS_PER_SOURCE)
    /\ Len(all_results) <= MAX_RESULTS_PER_SOURCE * Len(Sources)
    /\ pc = "prompt" =>
          Len(Choices(all_results)) <= MAX_RESULTS_PER_SOURCE * Len(Sources) + 1

\* C12, witness: the page of the last source had more than 3 result rows, the
\* search returned 3 candidates and the query has 6 candidates in all.
C12_Witness ==
    /\ pc = "sleep_src"
    /\ src = Len(Sources)
    /\ raw > MAX_RESULTS_PER_SOURCE
    /\ Len(found[src]) = MAX_RESULTS_PER_SOURCE
    /\ Len(all_results) = MAX_RESULTS_PER_SOURCE * Len(Sources)

\* C13: when read_file raises for the input file (unreadable, or without the
\* book_name or isbn column), and likewise for an existing output file, the
\* run ends there with the message of a read error: no adapter has been or
\* will be called, no prompt shown, no row processed and nothing written.
C13_ReadFailureEndsRunFirst ==
    /\ broken # "" =>
          /\ pc \in {"start", "done"}
          /\ pc = "done" => exit = "read_error" /\ message = "Error reading files"
          /\ calls = <<>>
          /\ new_books = <<>> /\ results = <<>>
          /\ \A k \in Rows : outcome[k] = Unprocessed
          /\ wrote = "none"
          /\ ledger = ledgerAtStart
    /\ exit = "read_error" => broken # ""

\* C13, witness: a run over an input with a row the ledger does not hold
\* ended at the failed read of the input file.
C13_Witness ==
    /\ pc = "done" /\ exit = "read_error"
    /\ broken = "input"
    /\ \E k \in Rows : ~InLedger(k)

\* C14: when write_file raises, the run is over and every pending row has been
\* driven through get_book_data before (the write is attempted once, after
\* the loop, with every record of the run in hand); the last thing the run
\* says is the error of the write, and "Added" is said only of a write that
\* succeeded.
C14_WriteFailureReportedAtEnd ==
    /\ wrote = "failed" =>
          /\ pc = "done"
          /\ i = Len(new_books)
          /\ \A k \in Range(new_books) : outcome[k] # Unprocessed
          /\ results # <<>> /\ results = Resolved
          /\ message = "Error writing output file"
    /\ message = "Added" => wrote = "ok" /\ Added = results
    /\ wrote # "none" => pc = "done" /\ i = Len(new_books)

\* C14, witness: the write of a run of two pending rows, one of them
\* resolved and one skipped, has failed.
C14_Witness ==
    /\ wrote = "failed"
    /\ Len(new_books) = 2
    /\ Len(results) = 1
    /\ outcome[new_books[2]] = None

\* Where the loop of process_books stands: the pending rows are taken in the
\* order of the input, none twice; those before the loop's position have
\* their outcome, those after it and the rows that are not pending have none;
\* the accumulator holds one record for each row that returned one, in order.
OneOutcomeEach ==
    /\ \A a, b \in DOMAIN new_books : a < b => new_books[a] < new_books[b]
    /\ i \in 0..Len(new_books)
    /\ \A j \in DOMAIN new_books :
          /\ j < i => outcome[new_books[j]] # Unprocessed
          /\ j > i => outcome[new_books[j]] = Unprocessed
    /\ \A k \in Rows \ Range(new_books) : outcome[k] = Unprocessed
    /\ results = Resolved
    /\ Len(results) <= i
    /\ wrote = "ok" => Added = Resolved
    /\ (pc = "done" /\ exit = "ok") =>
          /\ i = Len(new_books)
          /\ \A k \in Range(new_books) : outcome[k] # Unprocessed

\* A step within a run: the loop stays or moves on by one row, only the row
\* in hand gets an outcome, and an outcome once given is kept.
NeverRevisited ==
    run' = run =>
        /\ i' \in {i, i + 1}
        /\ \A k \in Rows :
              /\ outcome[k] # Unprocessed => outcome'[k] = outcome[k]
              /\ outcome'[k] # outcome[k] =>
                    k = Row /\ pc \in {"google", "sleep_src", "prompt"}

\* C15: within a run every pending row is driven through get_book_data once,
\* in the order of the input, and gets exactly one outcome (a record or
\* None); no row is taken again, and a row has at most one record among those
\* the run writes.
C15_EachQueryOnceInOrder == []OneOutcomeEach /\ [][NeverRevisited]_vars

\* C15, witness: a run of two pending rows is over; the first was skipped,
\* the second resolved from a fallback source, and one record was written.
C15_Witness ==
    /\ pc = "done" /\ exit = "ok" /\ wrote = "ok"
    /\ Len(new_books) = 2
    /\ outcome[new_books[1]] = None
    /\ outcome[new_books[2]].source = "worldcat"
    /\ Len(Added) = 1

\* rows begins with the rows of prior, unchanged and in their order.
Extends(rows, prior) ==
    /\ Len(rows) >= Len(prior)
    /\ SubSeq(rows, 1, Len(prior)) = prior

\* A run that wrote left the rows the file held when it started, followed by
\* the records of the run in the order of their rows in the input; a run that
\* has not written has left the file alone.
WrittenIsPriorThenNew ==
    /\ wrote = "ok" =>
          /\ ledger.exists
          /\ Extends(ledger.rows, ledgerAtStart.rows)
          /\ Added = Resolved
          /\ Added # <<>>
          /\ \A a, b \in DOMAIN new_books : a < b => new_books[a] < new_books[b]
    /\ wrote = "none" => ledger = ledgerAtStart

\* C16: the output file only grows: a run that writes persists every prior
\* row, unchanged and in its order, followed by the records resolved in the
\* run in the input order of their queries; no step, in any run, removes,
\* replaces or reorders a row the file holds.
C16_LedgerAppendOnly ==
    /\ []WrittenIsPriorThenNew
    /\ [][ledger' # ledger =>
              /\ Extends(ledger'.rows, ledger.rows)
              /\ Len(ledger'.rows) > Len(ledger.rows)]_vars

\* C16, witness: a run that started from a file holding a row has written
\* two records behind it, the first from Goodreads, the second from Google.
C16_Witness ==
    /\ pc = "done" /\ wrote = "ok"
    /\ ledgerAtStart.rows # <<>>
    /\ Len(Added) = 2
    /\ Added[1].source = "goodreads" /\ Added[2].source = "google"

\* The events of a query's log that are calls of an adapter.
Adapters == Range(Sources) \cup {"google"}

\* A delay is logged between positions p and q of the query's log.
DelayBetween(p, q) == \E m \in DOMAIN calls : p < m /\ m < q /\ calls[m] = "delay"

\* C17, as claimed: between any two adapter calls of a run a rate-limit delay
\* has elapsed.
C17_DelayBetweenAdapterCalls ==
    \A p, q \in DOMAIN calls :
        (p < q /\ calls[p] \in Adapters /\ calls[q] \in Adapters) => DelayBetween(p, q)

\* Within a query: a delay lies between two fallback searches, and none
\* between the Google lookup and the first fallback search.
DelaysOfQuery ==
    \A p, q \in DOMAIN calls :
        (p < q /\ calls[p] \in Adapters /\ calls[q] \in Adapters) =>
            IF calls[p] = "google" /\ calls[q] = Sources[1]
            THEN ~DelayBetween(p, q)
            ELSE DelayBetween(p, q)

\* A step that issues an adapter call: the Google lookup of a further query
\* is issued when the sleep after the previous query is over, a fallback
\* search other than the first when the sleep after the previous search is
\* over, the first fallback search as soon as Google has answered.
IssuedAfterSleep ==
    /\ (run' = run /\ pc' = "google" /\ i' > 1) =>
          /\ pc = "sleep_row"
          /\ calls[Len(calls)] = "delay"
    /\ (pc' = "search" /\ src' > 1) =>
          /\ pc = "sleep_src"
          /\ calls[Len(calls)] = "delay"
    /\ (pc' = "search" /\ src' = 1) => pc = "google"

\* C17, amended: a rate-limit delay follows every fallback search and every
\* query, so a delay has elapsed between two fallback searches of a query and
\* between the last adapter call of a query and the Google lookup of the
\* next; the first fallback search of a query follows its Google lookup with
\* no delay in between.
C17_DelayAfterSearchAndQuery == []DelaysOfQuery /\ [][IssuedAfterSleep]_vars

\* C17, witness: the second query of a run has gone through Google and both
\* fallback searches.
C17_Witness ==
    /\ i = 2
    /\ pc = "sleep_src"
    /\ src = Len(Sources)
    /\ FallbackCalls = Sources

\* The identifiers of the input rows, as texts.
InputIdentifiers == {AsStr(input[k]) : k \in Rows}

\* C18: every candidate of the query in hand, from Google or a fallback
\* source, carries the text of the query's isbn; so does every record a row
\* returned, and every record the run added to the ledger is the record of a
\* pending row with that row's identifier; the identifiers of the ledger are
\* among those it held when the run started and those of the input.
C18_RecordsCarryQueryIdentifier ==
    /\ primary \notin {None, Unprocessed} => primary.isbn = StrCell(Isbn)
    /\ \A c \in Range(all_results) \cup UNION {Range(f) : f \in Range(found)} :
          c.isbn = StrCell(Isbn)
    /\ \A k \in Rows : outcome[k] \notin {None, Unprocessed} =>
          outcome[k].isbn = StrCell(AsStr(input[k]))
    /\ \A r \in Range(Added) :
          \E k \in Range(new_books) :
              r = asdict(outcome[k]) /\ AsStr(r.isbn) = AsStr(input[k])
    /\ Identifiers(ledger.rows) \subseteq
          Identifiers(ledgerAtStart.rows) \cup InputIdentifiers

\* C18, witness: a run has written the records of two rows with different
\* identifiers, one from Google and one from WorldCat for a row whose isbn
\* cell is a number.
C18_Witness ==
    /\ pc = "done" /\ wrote = "ok"
    /\ Len(Added) = 2
    /\ AsStr(Added[1].isbn) # AsStr(Added[2].isbn)
    /\ \E k \in Rows : outcome[k].source = "google"
    /\ \E k \in Rows : input[k].kind = "int" /\ outcome[k].source = "worldcat"

\* Line 360 has been executed in this run: the pending rows are selected.
Selected == pc # "start" /\ exit \notin {"read_error", "KeyError"}

\* C19, as claimed: a row skipped in the previous run is pending again in
\* this one, and a row resolved in the previous run is not.
C19_SkippedPendingResolvedNot ==
    (past # <<>> /\ Selected) =>
        /\ \A k \in Previous.skipped : k \in Range(new_books)
        /\ \A k \in Previous.resolved : k \notin Range(new_books)

\* No other row with the identifier of row k has a record in this run.
OnlySkipped(k) ==
    \A m \in Rows : AsStr(input[m]) = AsStr(input[k]) => outcome[m] \in {None, Unprocessed}

\* C19, amended: a skipped row adds nothing to the ledger (a run writes one
\* row per row that returned a record, none with the identifier of a row
\* that was only skipped); in the next run that selects its pending rows, a
\* row skipped before is pending again unless the ledger holds its
\* identifier, a row whose record was written is not pending, and a row that
\* was resolved in a run that did not write (failed write, interrupt) is
\* pending again.
C19_SkipLeavesNoTrace ==
    /\ wrote = "ok" =>
          /\ Len(Added) = Cardinality({k \in Rows : outcome[k] \notin {None, Unprocessed}})
          /\ \A k \in Rows : (outcome[k] = None /\ OnlySkipped(k)) =>
                AsStr(input[k]) \notin Identifiers(Added)
    /\ (past # <<>> /\ Selected) =>
          /\ ledgerAtStart = Previous.ledger
          /\ \A k \in Previous.skipped :
                AsStr(input[k]) \notin Identifiers(Previous.ledger.rows) =>
                    k \in Range(new_books)
          /\ \A k \in Previous.resolved :
                IF Previous.wrote = "ok"
                THEN k \notin Range(new_books)
                ELSE k \in Range(new_books)

\* C19, witness: the previous run skipped one row and wrote the record of
\* another; in this run the first is pending again and the second is not.
C19_Witness ==
    /\ past # <<>> /\ Selected
    /\ Previous.wrote = "ok"
    /\ \E k \in Previous.skipped : k \in Range(new_books)
    /\ \E k \in Previous.resolved : k \notin Range(new_books)

\* How a run that has ended stands: it ended at the failed read, at the
\* KeyError of an absent output file, with nothing pending, or after the
\* loop; after the loop every pending row has its outcome and the write was
\* attempted if and only if a record was resolved.
EndedInOrder ==
    pc = "done" =>
        /\ exit \in {"read_error", "KeyError", "no_new", "ok"}
        /\ exit = "read_error" => broken # ""
        /\ exit = "KeyError" => ~ledgerAtStart.exists
        /\ exit # "ok" => new_books = <<>> /\ results = <<>> /\ wrote = "none"
        /\ exit = "ok" =>
              /\ new_books # <<>> /\ i = Len(new_books)
              /\ \A k \in Range(new_books) : outcome[k] # Unprocessed
              /\ results = Resolved
              /\ results # <<>> <=> wrote \in {"ok", "failed"}
              /\ results = <<>> <=> wrote = "none"

\* The write is attempted at most once, in the step that ends the run.
WritesOnce == wrote' # wrote => (wrote = "none" /\ pc = "sleep_row" /\ pc' = "done")

\* C20: a run that is not interrupted and whose requests, sleeps and prompts
\* all come to an end terminates; a run that got through the loop has
\* processed every pending row and has attempted the write of the merged
\* ledger exactly once if a record was resolved, and not at all otherwise.
C20_RunTerminates ==
    /\ <>(pc = "done")
    /\ []EndedInOrder
    /\ [][WritesOnce]_vars

\* C20, witness: a run of two pending rows has ended, one row resolved at
\* the prompt, and the merged ledger was written.
C20_Witness ==
    /\ pc = "done" /\ exit = "ok"
    /\ Len(new_books) = 2
    /\ chosen \in 1..MAX_RESULTS_PER_SOURCE
    /\ Len(results) = 2
    /\ wrote = "ok"

====
